---- MODULE Spec2Model ----
(***************************************************************************)
(* dutree (src/src/lib.rs): the tree builder Entry::new, the accounting    *)
(* pass get_bytes, run's multi-root collection and the renderer's name     *)
(* truncation, over a small file system with unreadable directories,       *)
(* nodes without metadata and symbolic links.                              *)
(***************************************************************************)
EXTENDS Integers, Sequences, FiniteSets

VARIABLES
    fs,          \* the file system: node -> what it is
    cfg,         \* the Config
    pc,          \* where run is
    idx,         \* run: the place in cfg.paths of the loop
    bytes,       \* run: the sum of the roots' bytes
    entries,     \* run: the roots' entries
    entry,       \* run: the root Entry
    log,         \* the error stream and the calls made, in order
    printed,     \* the lines written to the output
    name,        \* the truncation alone: the name
    name_width,  \* the truncation alone: the allotted width
    truncated,   \* the truncation alone: the clusters printed
    build,       \* the build profile: overflow checks on (debug) or off
    cnode,       \* the classification alone: the path's node
    color_dict,  \* the classification alone: the keys of the color table
    color,       \* the classification alone: the outcome
    bar_in,      \* the bar alone: the arguments of fmt_bar
    bar_out,     \* the bar alone: the outcome
    term_width,  \* the layout alone: the terminal width
    layout       \* the layout alone: the outcome

\* the variables of run and of the truncation, pc apart
runvars == <<fs, cfg, idx, bytes, entries, entry, log, printed,
             name, name_width, truncated>>

\* the variables of the functions checked on their own
purevars == <<cnode, color_dict, color, bar_in, bar_out, term_width, layout>>

vars == <<fs, cfg, pc, idx, bytes, entries, entry, log, printed,
          name, name_width, truncated, build, purevars>>

(***************************************************************************)
(* Bounds of the model.                                                    *)
(***************************************************************************)
\* logical file sizes are drawn from 0..MaxSize
MaxSize == 2
\* the aggregation threshold cfg.aggr is drawn from 0..MaxAggr
MaxAggr == 3
\* the depth limit cfg.depth is drawn from 0..MaxDepth
MaxDepth == 2
\* names handed to the truncation have at most MaxNameLen grapheme clusters
MaxNameLen == 4
\* the allotted name width is drawn from 0..MaxNameWidth
MaxNameWidth == 4
\* terminal widths are drawn from 1..MaxCols
MaxCols == 60
\* the bytes of the chains handed to fmt_bar are drawn from 0..MaxBytes
MaxBytes == 3
\* the chains handed to fmt_bar go MaxChain levels below the root
MaxChain == 2

(***************************************************************************)
(* The file system.  Nodes are numbered; Parent gives the directory that   *)
(* lists a node (NoNode for a node named on the command line only).  What  *)
(* a node is (fs[n].kind), and so which part of this shape exists, is      *)
(* chosen by Init.                                                         *)
(***************************************************************************)
NoNode == CHOOSE n \in 0..7 : n \notin 1..7
Node == 1..7

Parent(n) ==
    CASE n = 1 -> NoNode
      [] n = 2 -> 1
      [] n = 3 -> 1
      [] n = 4 -> 1
      [] n = 5 -> 2
      [] n = 6 -> 5
      [] n = 7 -> 1

\* the final path component, as a sequence of grapheme clusters
NodeName(n) ==
    CASE n = 1 -> <<"r">>
      [] n = 2 -> <<"a">>
      [] n = 3 -> <<"b">>
      [] n = 4 -> <<".", "c">>
      [] n = 5 -> <<"d">>
      [] n = 6 -> <<"b">>
      [] n = 7 -> <<"e">>

\* st_blocks is counted in units of 512 bytes
BlockUnit == 512

\* blocks allocated to a node of logical size s (whole 512-byte blocks)
BlocksFor(s) == (s + BlockUnit - 1) \div BlockUnit

File(s)    == [kind |-> "file", st_size |-> s, st_blocks |-> BlocksFor(s),
               readable |-> TRUE, meta_ok |-> TRUE, target |-> NoNode]
Dir(s, r)  == [kind |-> "dir", st_size |-> s, st_blocks |-> BlocksFor(s),
               readable |-> r, meta_ok |-> TRUE, target |-> NoNode]
Link(s, t) == [kind |-> "link", st_size |-> s, st_blocks |-> 0,
               readable |-> TRUE, meta_ok |-> TRUE, target |-> t]
\* a listed name whose metadata cannot be read (removed after the listing,
\* or in a directory without search permission)
Gone       == [kind |-> "file", st_size |-> 0, st_blocks |-> 0,
               readable |-> FALSE, meta_ok |-> FALSE, target |-> NoNode]

FileSizes == 0..MaxSize

\* what each node may be
NodeChoices(n) ==
    CASE n = 1 -> {Dir(3, TRUE)}
      [] n = 2 -> {Dir(3, TRUE), Dir(3, FALSE), Link(1, 1), Gone}
      [] n = 3 -> {File(s) : s \in FileSizes}
      [] n = 4 -> {File(s) : s \in FileSizes}
      [] n = 5 -> {Dir(1, TRUE), Dir(1, FALSE)}
      [] n = 6 -> {File(1)}
      [] n = 7 -> {File(3)}

RECURSIVE SeqSum(_)
SeqSum(s) == IF s = <<>> THEN 0 ELSE Head(s) + SeqSum(Tail(s))

RECURSIVE SetToSeq(_)
\* the elements of a set of numbers, ascending
SetToSeq(S) ==
    IF S = {} THEN <<>>
    ELSE LET m == CHOOSE x \in S : \A y \in S : x <= y
         IN <<m>> \o SetToSeq(S \ {m})

(***************************************************************************)
(* std::fs as the code uses it.                                            *)
(***************************************************************************)
\* Path::symlink_metadata().is_ok()
SymlinkMetadataOk(path) == fs[path].meta_ok

\* the node Path::metadata() stats: a link is followed (targets are never
\* links themselves in Init); NoNode when the stat fails
StatNode(path) ==
    IF ~fs[path].meta_ok THEN NoNode
    ELSE IF fs[path].kind = "link"
         THEN IF fs[path].target # NoNode /\ fs[fs[path].target].meta_ok
              THEN fs[path].target ELSE NoNode
         ELSE path

\* Path::is_dir(): follows links
is_dir(path) == StatNode(path) # NoNode /\ fs[StatNode(path)].kind = "dir"

\* Path::read_dir() succeeds
ReadDirOk(path) == is_dir(path) /\ fs[StatNode(path)].readable

\* the paths Path::read_dir() yields, in listing order
ReadDirList(path) == SetToSeq({n \in Node : Parent(n) = StatNode(path)})

\* log events: the error stream and the calls made
Ev(op, path) == [op |-> op, path |-> path]

try_is_symlink(path) == SymlinkMetadataOk(path) /\ fs[path].kind = "link"

file_name_from_path(path) == NodeName(path)

\* print_io_error: one line on the error stream naming the path
print_io_error(path) == <<Ev("err", path)>>

\* Some(list) / None, with the log of the attempt
try_read_dir(path) ==
    IF try_is_symlink(path) THEN [some |-> FALSE, v |-> <<>>, log |-> <<>>]
    ELSE IF ReadDirOk(path)
         THEN [some |-> TRUE, v |-> ReadDirList(path), log |-> <<Ev("read_dir", path)>>]
         ELSE [some |-> FALSE, v |-> <<>>,
               log |-> <<Ev("read_dir", path)>> \o print_io_error(path)]

\* as try_bytes_from_path, with metadata() in place of symlink_metadata():
\* the size is that of the node a link points to
try_bytes_following(path, usage_flag) ==
    IF SymlinkMetadataOk(path)
    THEN LET t == IF StatNode(path) # NoNode THEN StatNode(path) ELSE path
         IN [val |-> IF usage_flag THEN fs[t].st_blocks * BlockUnit ELSE fs[t].st_size,
             log |-> <<>>]
    ELSE [val |-> 0, log |-> print_io_error(path)]

try_bytes_from_path(path, usage_flag) ==
    IF SymlinkMetadataOk(path)
    THEN [val |-> IF usage_flag THEN fs[path].st_blocks * BlockUnit ELSE fs[path].st_size,
          log |-> <<>>]
    ELSE [val |-> 0, log |-> print_io_error(path)]

\* directory entries are read without error
path_from_dentry(p) == p

RECURSIVE get_bytes(_, _)
\* as get_bytes, without the recursion into the directory
get_bytes_shallow(path, usage_flag) ==
    LET own == try_bytes_from_path(path, usage_flag)
    IN [val |-> own.val, log |-> <<Ev("get_bytes", path)>> \o own.log]

\* as get_bytes, a directory whose listing fails counting for nothing
get_bytes_zero_on_error(path, usage_flag) ==
    IF is_dir(path)
    THEN LET own  == try_bytes_from_path(path, usage_flag)
             dl   == try_read_dir(path)
             subs == [k \in 1..Len(dl.v) |-> get_bytes(path_from_dentry(dl.v[k]), usage_flag)]
             RECURSIVE Acc(_)
             Acc(k) == IF k = 0 THEN [val |-> own.val, log |-> <<>>]
                       ELSE LET a == Acc(k - 1)
                            IN [val |-> a.val + subs[k].val, log |-> a.log \o subs[k].log]
         IN [val |-> IF dl.some \/ try_is_symlink(path) THEN Acc(Len(dl.v)).val ELSE 0,
             log |-> <<Ev("get_bytes", path)>> \o own.log \o dl.log \o Acc(Len(dl.v)).log]
    ELSE LET own == try_bytes_from_path(path, usage_flag)
         IN [val |-> own.val, log |-> <<Ev("get_bytes", path)>> \o own.log]

get_bytes(path, usage_flag) ==
    IF is_dir(path)
    THEN LET own  == try_bytes_from_path(path, usage_flag)
             dl   == try_read_dir(path)
             subs == [k \in 1..Len(dl.v) |-> get_bytes(path_from_dentry(dl.v[k]), usage_flag)]
             RECURSIVE Acc(_)
             Acc(k) == IF k = 0 THEN [val |-> own.val, log |-> <<>>]
                       ELSE LET a == Acc(k - 1)
                            IN [val |-> a.val + subs[k].val, log |-> a.log \o subs[k].log]
         IN [val |-> Acc(Len(dl.v)).val,
             log |-> <<Ev("get_bytes", path)>> \o own.log \o dl.log \o Acc(Len(dl.v)).log]
    ELSE LET own == try_bytes_from_path(path, usage_flag)
         IN [val |-> own.val, log |-> <<Ev("get_bytes", path)>> \o own.log]

(***************************************************************************)
(* Entry::new.  An Entry is [name, bytes, last, entries, path]: entries is *)
(* the Option<Vec<Entry>> ([some |-> FALSE] is None) and path is the node  *)
(* the entry was built from (NoNode for a synthetic entry), kept so that   *)
(* the properties can name the node.  The color of an entry plays no part  *)
(* in its bytes, order or children and is not in the record.  Sums are far *)
(* below 2^64.                                                             *)
(***************************************************************************)
None == [some |-> FALSE, v |-> <<>>]
Some(vec) == [some |-> TRUE, v |-> vec]

AggregatedName == <<"<aggregated>">>
CollectionName == <<"<collection>">>

\* the largest u8
U8Max == 255

\* u8 arithmetic of the remaining-depth counter (wrapping, as a release build)
U8(x) == x % 256

\* cfg.depth + 1 of run does not fit the u8, and depth - 1 of Entry::new
\* goes below zero: an overflow check of a debug build fails there
depth_add_overflows(c) == c.depth + 1 > U8Max
depth_sub_underflows(c, depth) == c.depth_flag /\ depth = 0

\* the remaining depth Entry::new works with
next_depth(c, depth) == IF c.depth_flag THEN U8(depth - 1) ELSE 1

\* whether Entry::new descends into path
descends(path, c, depth) == is_dir(path) /\ (~c.depth_flag \/ depth > 0)

starts_with_dot(nm) == Len(nm) > 0 /\ nm[1] = "."

\* the argument filters: the child is skipped
is_filtered(path, c) ==
    LET entry_name == file_name_from_path(path)
    IN \/ \E k \in 1..Len(c.exclude) : entry_name = c.exclude[k]
       \/ c.hiddn_flag /\ starts_with_dot(entry_name)
       \/ c.no_dir_flg /\ is_dir(path)

\* as is_aggregated, with <= for <
is_aggregated_le(e, c) == c.aggr > 0 /\ e.bytes <= c.aggr

\* the child is folded into aggr_bytes instead of being pushed
is_aggregated(e, c) == c.aggr > 0 /\ e.bytes < c.aggr

RECURSIVE insert_desc(_, _)
\* as insert_desc, with the comparator a.bytes.cmp(&b.bytes)
insert_asc(sorted, e) ==
    IF sorted = <<>> THEN <<e>>
    ELSE IF Head(sorted).bytes <= e.bytes
         THEN <<Head(sorted)>> \o insert_desc(Tail(sorted), e)
         ELSE <<e>> \o sorted

\* one step of the insertion sort: e goes after every element that is not
\* smaller (the comparator is b.bytes.cmp(&a.bytes))
insert_desc(sorted, e) ==
    IF sorted = <<>> THEN <<e>>
    ELSE IF Head(sorted).bytes >= e.bytes
         THEN <<Head(sorted)>> \o insert_desc(Tail(sorted), e)
         ELSE <<e>> \o sorted

RECURSIVE sort_desc(_)
\* vec.sort_unstable_by(|a, b| b.bytes.cmp(&a.bytes)): an insertion sort on
\* slices this short
sort_desc(vec) ==
    IF vec = <<>> THEN <<>>
    ELSE insert_desc(sort_desc(SubSeq(vec, 1, Len(vec) - 1)), vec[Len(vec)])

\* the synthetic entry pushed when aggr_bytes > 0
push_aggregate(vec, aggr_bytes) ==
    IF aggr_bytes > 0
    THEN Append(vec, [name |-> AggregatedName, bytes |-> aggr_bytes, last |-> TRUE,
                      entries |-> None, path |-> NoNode])
    ELSE vec

\* as mark_last, without the assignment
mark_last_skipped(vec) == vec

\* vec[len-1].last = true
mark_last(vec) ==
    IF Len(vec) > 0
    THEN [vec EXCEPT ![Len(vec)] = [@ EXCEPT !.last = TRUE]]
    ELSE vec

\* as dir_total, the directory's own size left out
dir_total_children_only(own, vec) == SeqSum([k \in 1..Len(vec) |-> vec[k].bytes])

\* total of a directory that was descended into
dir_total(own, vec) == own + SeqSum([k \in 1..Len(vec) |-> vec[k].bytes])

RECURSIVE EntryNew(_, _, _)
\* [e |-> the Entry, log |-> the events of the call]
EntryNew(path, c, depth0) ==
    LET depth == next_depth(c, depth0)
        down  == descends(path, c, depth)
        dl    == IF down THEN try_read_dir(path) ELSE [some |-> FALSE, v |-> <<>>, log |-> <<>>]
        kept  == SelectSeq(dl.v, LAMBDA p : ~is_filtered(path_from_dentry(p), c))
        built == [k \in 1..Len(kept) |-> EntryNew(kept[k], c, depth)]
        es    == [k \in 1..Len(kept) |-> built[k].e]
        RECURSIVE Logs(_)
        Logs(k) == IF k = 0 THEN <<>> ELSE Logs(k - 1) \o built[k].log
        aggr_bytes == SeqSum([k \in 1..Len(kept) |->
                                 IF is_aggregated(es[k], c) THEN es[k].bytes ELSE 0])
        vec   == mark_last(push_aggregate(
                     sort_desc(SelectSeq(es, LAMBDA e : ~is_aggregated(e, c))),
                     aggr_bytes))
        ents  == IF dl.some THEN Some(vec) ELSE None
        own   == try_bytes_from_path(path, c.usage_flag)
        gb    == get_bytes(path, c.usage_flag)
    IN [e   |-> [name |-> file_name_from_path(path),
                 bytes |-> IF ents.some THEN dir_total(own.val, ents.v) ELSE gb.val,
                 last |-> FALSE,
                 entries |-> ents,
                 path |-> path],
        log |-> <<Ev("new", path)>>
                \o (IF depth_sub_underflows(c, depth0) THEN <<Ev("underflow", path)>> ELSE <<>>)
                \o dl.log \o Logs(Len(kept))
                \o (IF ents.some THEN own.log ELSE gb.log)]

(***************************************************************************)
(* The truncation of a name to name_width columns (print_entries).         *)
(***************************************************************************)
\* UnicodeWidthStr::width of one grapheme cluster: "W" stands for a wide
\* (two-column) cluster and "Z" for a zero-width one
ClusterWidth(cluster) ==
    CASE cluster = "W" -> 2
      [] cluster = "Z" -> 0
      [] OTHER -> 1

RECURSIVE truncate_from(_, _, _)
\* the loop over the graphemes from the state (i columns used)
truncate_from(graphemes, i, width) ==
    IF graphemes = <<>> THEN <<>>
    ELSE LET w == ClusterWidth(Head(graphemes))
         IN IF i + w <= width
            THEN <<Head(graphemes)>> \o truncate_from(Tail(graphemes), i + w, width)
            ELSE truncate_from(Tail(graphemes), i, width)

truncate_name(nm, width) == truncate_from(nm, 0, width)

(***************************************************************************)
(* The renderer: Entry::print, Entry::print_entries and fmt_bar.  A line   *)
(* is [open, last, name, pad, bar, size]: the ancestors' flags and the     *)
(* entry's own (the tree glyphs), the truncated name and its padding, the  *)
(* bar and the size.                                                       *)
(***************************************************************************)
DEF_WIDTH == 80

\* u16 arithmetic of the terminal width (wrapping, as a release build)
U16(x) == x % 65536

\* The columns Entry::print works out from the terminal width.  A usize or
\* u64 difference d below zero stands for the wrapped value 2^64 + d, which
\* is above isize::MAX.
size_width == 15
var_width(twidth) == U16(twidth - size_width)
tree_name_width(twidth) ==
    LET quarter == (var_width(twidth) * 25) \div 100
    IN IF quarter > 25 THEN quarter ELSE 25
bar_width(twidth) == var_width(twidth) - tree_name_width(twidth)

\* fmt_bar: the width of the bar without its two borders and percentage
body_width(width0) == width0 - 2 - 5

\* the subtractions that go below zero: an overflow check of a debug build
\* fails there
twidth_underflows(twidth) == twidth < size_width
bar_width_underflows(twidth) == var_width(twidth) < tree_name_width(twidth)
body_underflows(width0) == body_width(width0) < 0
\* String::with_capacity(width as usize) of more than isize::MAX panics
capacity_overflows(width0) == body_width(width0) < 0

\* whether print_entries reaches fmt_bar: there is a first child (its line
\* is never skipped, the name column being 25 at least)
calls_fmt_bar(self) == self.entries.some /\ self.entries.v # <<>>

\* The width calculation of Entry::print with that of the first fmt_bar
\* call: wrapped tells that a subtraction went below zero, panic that the
\* program stopped there (the values are then those a wrapping build has).
print_layout(self, bld, twidth) ==
    LET bw  == bar_width(twidth)
        ovf == \/ twidth_underflows(twidth)
               \/ bar_width_underflows(twidth)
               \/ calls_fmt_bar(self) /\ body_underflows(bw)
    IN [panic   |-> \/ bld = "debug" /\ ovf
                    \/ calls_fmt_bar(self) /\ capacity_overflows(bw),
        wrapped |-> ovf,
        var_width |-> var_width(twidth),
        tree_name_width |-> tree_name_width(twidth),
        bar_width |-> bw,
        body |-> IF calls_fmt_bar(self) THEN body_width(bw) ELSE 0]

\* UnicodeWidthStr::width of a whole name
RECURSIVE NameWidth(_)
NameWidth(nm) == IF nm = <<>> THEN 0 ELSE ClusterWidth(Head(nm)) + NameWidth(Tail(nm))

\* the number of shading characters: ' ' and '#', or ' ', four blocks
block_chars(ascii_flag) == IF ascii_flag THEN 2 ELSE 5

\* fmt_bar: [cells |-> the shading level of each cell of the bar body, as
\* the place of its character in block_char, pct |-> the percentage]
fmt_bar(vals, max_bytes, width0, ascii_flag) ==
    LET width  == body_width(width0)
        nchr   == block_chars(ascii_flag)
        levels == Len(vals) - 1
        bars0  == IF max_bytes = 0 THEN 0 ELSE (vals[2] * width) \div max_bytes
        \* the loop's variables: it is the place bytesi.next() reads from
        st0    == [it |-> 3, part |-> vals[2], bars |-> bars0,
                   pos |-> width - bars0, chr |-> 0]
        advance(st) ==
            LET total == st.part
                part  == IF st.it <= Len(vals) THEN vals[st.it] ELSE 0
                bars  == IF total = 0 THEN 0 ELSE (part * st.bars) \div total
                chr   == IF st.chr + 1 = levels \/ st.chr + 1 >= nchr
                         THEN nchr - 1 ELSE st.chr + 1
            IN [it |-> IF st.it <= Len(vals) THEN st.it + 1 ELSE st.it,
                part |-> part, bars |-> bars, pos |-> width - bars, chr |-> chr]
        RECURSIVE cells(_, _)
        cells(x, st) ==
            IF x >= width THEN <<>>
            ELSE LET st2 == IF x > st.pos THEN advance(st) ELSE st
                 IN <<st2.chr>> \o cells(x + 1, st2)
        nominator   == vals[Len(vals)] * 100
        denominator == vals[Len(vals) - 1]
    IN [cells |-> cells(0, st0),
        pct   |-> IF denominator = 0 THEN 0 ELSE nominator \div denominator]

\* fmt_size_str: the unit, and the value as the quotient num / den that the
\* code prints with two decimals
fmt_size_str(b, flag) ==
    IF b < 1024 \/ flag   THEN [unit |-> "B",   num |-> b, den |-> 1]
    ELSE IF b < 1024 ^ 2  THEN [unit |-> "KiB", num |-> b, den |-> 1024]
    ELSE IF b < 1024 ^ 3  THEN [unit |-> "MiB", num |-> b, den |-> 1024 ^ 2]
    ELSE IF b < 1024 ^ 4  THEN [unit |-> "GiB", num |-> b, den |-> 1024 ^ 3]
    ELSE                       [unit |-> "TiB", num |-> b, den |-> 1024 ^ 4]

RECURSIVE print_entries(_, _, _, _, _, _, _, _)
\* the lines print_entries writes for the children of self
print_entries(self, open_parents, parent_vals, bytes_flag, ascii_flag, max_bytes, bw, tnw) ==
    LET tree_width == (Len(open_parents) + 1) * 3
        Line(e) ==
            LET nw  == tnw - tree_width
                len == NameWidth(e.name)
            IN [open |-> open_parents,
                last |-> e.last,
                name |-> truncate_name(e.name, nw),
                pad  |-> IF len < nw THEN nw - len ELSE 0,
                bar  |-> fmt_bar(Append(parent_vals, e.bytes), max_bytes, bw, ascii_flag),
                size |-> fmt_size_str(e.bytes, bytes_flag)]
        RECURSIVE Lines(_)
        Lines(k) ==
            IF k > Len(self.entries.v) THEN <<>>
            ELSE LET e == self.entries.v[k]
                 IN (IF tnw >= tree_width
                     THEN <<Line(e)>> \o
                          (IF e.entries.some
                           THEN print_entries(e, Append(open_parents, e.last),
                                              Append(parent_vals, e.bytes),
                                              bytes_flag, ascii_flag, max_bytes, bw, tnw)
                           ELSE <<>>)
                     ELSE <<>>)
                    \o Lines(k + 1)
    IN IF self.entries.some THEN Lines(1) ELSE <<>>

\* the largest bytes among the children of self, self.bytes without any
max_child_bytes(self) ==
    IF self.entries.some /\ self.entries.v # <<>>
    THEN LET v == self.entries.v
         IN v[CHOOSE k \in 1..Len(v) : \A j \in 1..Len(v) : v[k].bytes >= v[j].bytes].bytes
    ELSE self.bytes

\* the root line, then the tree
print(self, bytes_flag, ascii_flag, twidth) ==
    <<[open |-> <<>>, last |-> FALSE, name |-> self.name, pad |-> 0,
       bar |-> [cells |-> <<>>, pct |-> 0],
       size |-> fmt_size_str(self.bytes, bytes_flag)]>>
    \o print_entries(self, <<>>, <<self.bytes>>, bytes_flag, ascii_flag,
                     max_child_bytes(self), bar_width(twidth), tree_name_width(twidth))

(***************************************************************************)
(* The configurations and file systems of the model.                       *)
(***************************************************************************)
\* -d absent (the depth is then the default 1), or -d N with N in 0..MaxDepth
DepthChoices == {<<FALSE, 1>>} \cup {<<TRUE, d>> : d \in 0..MaxDepth}

\* the paths of the command line: the root alone, or three of its children
PathChoices == {<<1>>, <<2, 3, 4>>}

\* -x b, or no -x
ExcludeChoices == {<<>>, <<NodeName(3)>>}

\* -u, -H, -f and -x: every combination of the filters without -u, and -u
\* with no filter and with all of them
FlagChoices ==
    {<<FALSE, h, f, x>> : h \in BOOLEAN, f \in BOOLEAN, x \in ExcludeChoices}
    \cup {<<TRUE, FALSE, FALSE, <<>> >>, <<TRUE, TRUE, TRUE, <<NodeName(3)>> >>}

Configs ==
    {[paths |-> p, depth |-> d[2], depth_flag |-> d[1], bytes_flag |-> FALSE,
      usage_flag |-> g[1], hiddn_flag |-> g[2], ascii_flag |-> FALSE,
      no_dir_flg |-> g[3], aggr |-> a, exclude |-> g[4]] :
        p \in PathChoices, d \in DepthChoices, g \in FlagChoices, a \in 0..MaxAggr}

FileSystems ==
    {<<n1, n2, n3, n4, n5, n6, n7>> :
        n1 \in NodeChoices(1), n2 \in NodeChoices(2), n3 \in NodeChoices(3),
        n4 \in NodeChoices(4), n5 \in NodeChoices(5), n6 \in NodeChoices(6),
        n7 \in NodeChoices(7)}

NoEntry == [name |-> <<>>, bytes |-> 0, last |-> FALSE, entries |-> None, path |-> NoNode]

\* the width terminal_size() reports; DEF_WIDTH when there is no terminal
TermWidths == {DEF_WIDTH}

ClusterSet == {"a", "W", "Z"}

Names == UNION {[1..n -> ClusterSet] : n \in 0..MaxNameLen}

(***************************************************************************)
(* run.  No arithmetic overflows within these bounds, so the build profile *)
(* makes no difference to run here.                                        *)
(***************************************************************************)
\* the functions checked on their own are not in use
PureIdle ==
    /\ cnode = NoNode
    /\ color_dict = {}
    /\ color = NoNode
    /\ bar_in = NoNode
    /\ bar_out = NoNode
    /\ term_width = DEF_WIDTH
    /\ layout = NoNode

Init ==
    /\ fs \in FileSystems
    /\ cfg \in Configs
    /\ pc = "run"
    /\ idx = 1
    /\ bytes = 0
    /\ entries = <<>>
    /\ entry = NoEntry
    /\ log = <<>>
    /\ printed = <<>>
    /\ name = <<>>
    /\ name_width = 0
    /\ truncated = <<>>
    /\ build = "release"
    /\ PureIdle

\* cfg.paths.len() == 1: the entry of the only path
BuildSingle ==
    /\ pc = "run"
    /\ Len(cfg.paths) = 1
    /\ LET r == EntryNew(cfg.paths[1], cfg, U8(cfg.depth + 1))
       IN /\ entry' = r.e
          /\ log' = log \o r.log
    /\ pc' = "print"
    /\ UNCHANGED <<fs, cfg, idx, bytes, entries, printed, name, name_width, truncated, build, purevars>>

\* one turn of the loop over cfg.paths
BuildPath ==
    /\ pc = "run"
    /\ Len(cfg.paths) # 1
    /\ idx <= Len(cfg.paths)
    /\ LET r == EntryNew(cfg.paths[idx], cfg, U8(cfg.depth + 1))
       IN /\ bytes' = bytes + r.e.bytes
          /\ entries' = Append(entries, r.e)
          /\ log' = log \o r.log
    /\ idx' = idx + 1
    /\ UNCHANGED <<fs, cfg, pc, entry, printed, name, name_width, truncated, build, purevars>>

\* after the loop: sort, mark the last and wrap into the collection entry
Collect ==
    /\ pc = "run"
    /\ Len(cfg.paths) # 1
    /\ idx > Len(cfg.paths)
    /\ entry' = [name |-> CollectionName, bytes |-> bytes, last |-> FALSE,
                 entries |-> Some(mark_last(sort_desc(entries))), path |-> NoNode]
    /\ pc' = "print"
    /\ UNCHANGED <<fs, cfg, idx, bytes, entries, log, printed, name, name_width, truncated, build, purevars>>

\* entry.print
PrintTree ==
    /\ pc = "print"
    /\ \E w \in TermWidths : printed' = print(entry, cfg.bytes_flag, cfg.ascii_flag, w)
    /\ pc' = "done"
    /\ UNCHANGED <<fs, cfg, idx, bytes, entries, entry, log, name, name_width, truncated, build, purevars>>

Next == BuildSingle \/ BuildPath \/ Collect \/ PrintTree

Spec == Init /\ [][Next]_vars

(***************************************************************************)
(* The truncation alone, on every name and width of the bounds.            *)
(***************************************************************************)
DefaultConfig ==
    [paths |-> <<1>>, depth |-> 1, depth_flag |-> FALSE, bytes_flag |-> FALSE,
     usage_flag |-> FALSE, hiddn_flag |-> FALSE, ascii_flag |-> FALSE,
     no_dir_flg |-> FALSE, aggr |-> 0, exclude |-> <<>>]

InitTrunc ==
    /\ fs = [n \in Node |-> File(0)]
    /\ cfg = DefaultConfig
    /\ pc = "trunc"
    /\ idx = 1
    /\ bytes = 0
    /\ entries = <<>>
    /\ entry = NoEntry
    /\ log = <<>>
    /\ printed = <<>>
    /\ truncated = <<>>
    /\ name \in Names
    /\ name_width \in 0..MaxNameWidth
    /\ build = "release"
    /\ PureIdle

\* the truncation loop of print_entries on one name
Truncate ==
    /\ pc = "trunc"
    /\ truncated' = truncate_name(name, name_width)
    /\ pc' = "done"
    /\ UNCHANGED <<fs, cfg, idx, bytes, entries, entry, log, printed, name, name_width,
                 build, purevars>>

NextTrunc == Truncate

SpecTrunc == InitTrunc /\ [][NextTrunc]_vars

(***************************************************************************)
(* color_from_path alone, on every node and color table of the choices     *)
(* below.  Keys and names are sequences of characters.  The table is the   *)
(* set of its keys, and the color found is given as the key it is stored   *)
(* under.                                                                  *)
(***************************************************************************)
KeyLn  == <<"l", "n">>
KeyOr  == <<"o", "r">>
KeyOw  == <<"o", "w">>
KeyDi  == <<"d", "i">>
KeyEx  == <<"e", "x">>
KeyFi  == <<"f", "i">>
KeyBd  == <<"b", "d">>
KeyMp3 == <<"*", ".", "m", "p", "3">>
\* a key of one byte, as LS_COLORS=x=1 gives
KeyOneByte == <<"x">>

ColorKeys == {KeyLn, KeyOr, KeyOw, KeyDi, KeyEx, KeyFi, KeyBd, KeyMp3, KeyOneByte}

\* the file names of the nodes classified
ColorNames == {<<"t">>, <<"t", ".", "m", "p", "3">>, <<".", "m", "p", "3">>}

\* A node as color_from_path sees it: kind is what symlink_metadata gives
\* (meta_ok: it succeeds), other_w and exec are mode & 0o002 and
\* mode & 0o111 of that same metadata.  Of a link, target is what it
\* resolves to ("none": dangling), and cwd_exists is whether the link's text,
\* taken as a path from the current directory, names something: the two
\* agree unless the text is relative and the link lies in another directory
\* (rel_other_dir).  A link's own mode is rwxrwxrwx.
ColorNode(meta_ok, kind, other_w, exec, nm, target, rel_other_dir, cwd_exists) ==
    [meta_ok |-> meta_ok, kind |-> kind, other_w |-> other_w, exec |-> exec,
     name |-> nm, target |-> target, rel_other_dir |-> rel_other_dir,
     cwd_exists |-> cwd_exists]

ColorNodes ==
    {ColorNode(TRUE, k, ow, ex, nm, "none", FALSE, FALSE) :
        k \in {"file", "dir", "special"}, ow \in BOOLEAN, ex \in BOOLEAN, nm \in ColorNames}
    \cup {ColorNode(FALSE, "file", FALSE, FALSE, nm, "none", FALSE, FALSE) : nm \in ColorNames}
    \cup {nd \in {ColorNode(TRUE, "link", TRUE, TRUE, nm, t, r, c) :
                     nm \in ColorNames, t \in {"none", "file", "dir"},
                     r \in BOOLEAN, c \in BOOLEAN} :
             nd.rel_other_dir \/ (nd.cwd_exists <=> nd.target # "none")}

ColorDicts == SUBSET ColorKeys

\* try_is_symlink, of a node
node_is_symlink(nd) == nd.meta_ok /\ nd.kind = "link"

\* path.read_link().unwrap().exists(): the link's text is looked up from
\* the current directory
link_target_exists(nd) == nd.cwd_exists

\* Path::is_dir() and Path::is_file(): both follow a link
node_is_dir(nd) ==
    nd.meta_ok /\ (nd.kind = "dir" \/ (nd.kind = "link" /\ nd.target = "dir"))
node_is_file(nd) ==
    nd.meta_ok /\ (nd.kind = "file" \/ (nd.kind = "link" /\ nd.target = "file"))

\* Path::extension(): what follows the last dot of the file name, None
\* without a dot or when the only dot begins the name
extension(nm) ==
    LET dots == {k \in 1..Len(nm) : nm[k] = "."}
    IN IF dots = {} THEN None
       ELSE LET d == CHOOSE k \in dots : \A j \in dots : j <= k
            IN IF d = 1 THEN None ELSE Some(SubSeq(nm, d + 1, Len(nm)))

RECURSIVE trim_start_matches(_)
\* key.trim_start_matches("*."): every leading "*." goes
trim_start_matches(key) ==
    IF Len(key) >= 2 /\ SubSeq(key, 1, 2) = <<"*", ".">>
    THEN trim_start_matches(SubSeq(key, 3, Len(key)))
    ELSE key

Found(key) == [panic |-> FALSE, some |-> TRUE, key |-> key]
NoColor    == [panic |-> FALSE, some |-> FALSE, key |-> <<>>]
\* &key[..2] of a key shorter than two bytes
Panicked   == [panic |-> TRUE, some |-> FALSE, key |-> <<>>]

\* the loop over the table's keys, which come in no fixed order: the ways it
\* can end other than by running out of keys
ext_outcomes(ext_str, dict) ==
    {Found(key) : key \in {k \in dict : /\ Len(k) >= 2
                                        /\ SubSeq(k, 1, 2) = <<"*", ".">>
                                        /\ trim_start_matches(k) = ext_str}}
    \cup (IF \E k \in dict : Len(k) < 2 THEN {Panicked} ELSE {})

\* the returns of the link branch, none when it falls through
color_of_link(nd, dict) ==
    IF node_is_symlink(nd) /\ link_target_exists(nd) /\ KeyLn \in dict THEN {Found(KeyLn)}
    ELSE IF node_is_symlink(nd) /\ KeyOr \in dict THEN {Found(KeyOr)}
    ELSE {}

\* the returns of the metadata branch, none when it falls through
color_of_mode(nd, dict) ==
    IF nd.meta_ok /\ node_is_dir(nd) /\ nd.other_w /\ KeyOw \in dict THEN {Found(KeyOw)}
    ELSE IF nd.meta_ok /\ node_is_dir(nd) /\ KeyDi \in dict THEN {Found(KeyDi)}
    ELSE IF nd.meta_ok /\ nd.exec /\ KeyEx \in dict THEN {Found(KeyEx)}
    ELSE {}

\* the last returns: a regular file (links followed) or anything else
color_of_kind(nd, dict) ==
    IF node_is_file(nd)
    THEN IF KeyFi \in dict THEN {Found(KeyFi)} ELSE {NoColor}
    ELSE IF KeyBd \in dict THEN {Found(KeyBd)} ELSE {NoColor}

\* the outcomes color_from_path can have
color_from_path(nd, dict) ==
    LET ext_str == extension(nd.name)
        by_ext  == IF ext_str.some THEN ext_outcomes(ext_str.v, dict) ELSE {}
    IN IF color_of_link(nd, dict) # {} THEN color_of_link(nd, dict)
       ELSE IF color_of_mode(nd, dict) # {} THEN color_of_mode(nd, dict)
       ELSE IF by_ext # {} THEN by_ext
       ELSE color_of_kind(nd, dict)

InitColor ==
    /\ fs = [n \in Node |-> File(0)]
    /\ cfg = DefaultConfig
    /\ pc = "color"
    /\ idx = 1
    /\ bytes = 0
    /\ entries = <<>>
    /\ entry = NoEntry
    /\ log = <<>>
    /\ printed = <<>>
    /\ name = <<>>
    /\ name_width = 0
    /\ truncated = <<>>
    /\ build = "release"
    /\ cnode \in ColorNodes
    /\ color_dict \in ColorDicts
    /\ color = NoNode
    /\ bar_in = NoNode
    /\ bar_out = NoNode
    /\ term_width = DEF_WIDTH
    /\ layout = NoNode

\* one call of color_from_path
Classify ==
    /\ pc = "color"
    /\ color' \in color_from_path(cnode, color_dict)
    /\ pc' = "classified"
    /\ UNCHANGED <<runvars, build, cnode, color_dict, bar_in, bar_out, term_width, layout>>

NextColor == Classify

SpecColor == InitColor /\ [][NextColor]_vars

(***************************************************************************)
(* The width calculation alone, on every terminal width up to MaxCols, in  *)
(* both builds, for a root without and with a child.                       *)
(***************************************************************************)
Builds == {"debug", "release"}

\* terminal_size() reports no width of 0 columns
TermCols == 1..MaxCols

LayoutEntries ==
    {[name |-> <<"r">>, bytes |-> 1, last |-> FALSE, entries |-> None, path |-> 1],
     [name |-> <<"r">>, bytes |-> 4, last |-> FALSE, path |-> 1,
      entries |-> Some(<<[name |-> <<"b">>, bytes |-> 1, last |-> TRUE,
                          entries |-> None, path |-> 3]>>)]}

InitLayout ==
    /\ fs = [n \in Node |-> File(0)]
    /\ cfg = DefaultConfig
    /\ pc = "layout"
    /\ idx = 1
    /\ bytes = 0
    /\ entries = <<>>
    /\ entry \in LayoutEntries
    /\ log = <<>>
    /\ printed = <<>>
    /\ name = <<>>
    /\ name_width = 0
    /\ truncated = <<>>
    /\ build \in Builds
    /\ cnode = NoNode
    /\ color_dict = {}
    /\ color = NoNode
    /\ bar_in = NoNode
    /\ bar_out = NoNode
    /\ term_width \in TermCols
    /\ layout = NoNode

\* the width calculation of entry.print
Layout ==
    /\ pc = "layout"
    /\ layout' = print_layout(entry, build, term_width)
    /\ pc' = "laid"
    /\ UNCHANGED <<runvars, build, cnode, color_dict, color, bar_in, bar_out, term_width>>

NextLayout == Layout

SpecLayout == InitLayout /\ [][NextLayout]_vars

(***************************************************************************)
(* fmt_bar alone.  The arguments are those print_entries can pass: the     *)
(* chain of bytes from the root's total down to the entry, each no more    *)
(* than the one before, a maximum between the root's total and the         *)
(* root-level ancestor, and the bar column of a terminal width whose       *)
(* calculation does not go below zero.                                     *)
(***************************************************************************)
\* the terminal widths whose calculation stays in range
GoodCols ==
    {t \in TermCols : /\ ~twidth_underflows(t)
                      /\ ~bar_width_underflows(t)
                      /\ ~body_underflows(bar_width(t))}

Descending(vals) == \A k \in 1..(Len(vals) - 1) : vals[k] >= vals[k + 1]

BarChains ==
    {vals \in UNION {[1..n -> 0..MaxBytes] : n \in 2..(MaxChain + 1)} : Descending(vals)}

BarInputs ==
    {[bytes |-> vals, max_bytes |-> m, width |-> bar_width(t), ascii_flag |-> a] :
        vals \in BarChains, m \in 0..MaxBytes, t \in GoodCols, a \in BOOLEAN}

InitBar ==
    /\ fs = [n \in Node |-> File(0)]
    /\ cfg = DefaultConfig
    /\ pc = "bar"
    /\ idx = 1
    /\ bytes = 0
    /\ entries = <<>>
    /\ entry = NoEntry
    /\ log = <<>>
    /\ printed = <<>>
    /\ name = <<>>
    /\ name_width = 0
    /\ truncated = <<>>
    /\ build = "release"
    /\ cnode = NoNode
    /\ color_dict = {}
    /\ color = NoNode
    /\ bar_in \in {b \in BarInputs : b.bytes[1] >= b.max_bytes /\ b.max_bytes >= b.bytes[2]}
    /\ bar_out = NoNode
    /\ term_width = DEF_WIDTH
    /\ layout = NoNode

\* one call of fmt_bar
Bar ==
    /\ pc = "bar"
    /\ bar_out' = fmt_bar(bar_in.bytes, bar_in.max_bytes, bar_in.width, bar_in.ascii_flag)
    /\ pc' = "barred"
    /\ UNCHANGED <<runvars, build, cnode, color_dict, color, bar_in, term_width, layout>>

NextBar == Bar

SpecBar == InitBar /\ [][NextBar]_vars

(***************************************************************************)
(* run on one path with every depth limit of DepthLimits, in both builds:  *)
(* the overflow checks of a debug build stop the program.                  *)
(***************************************************************************)
\* -d N: the small limits and the largest the u8 holds
DepthLimits == (0..MaxDepth) \cup {U8Max - 1, U8Max}

DepthConfigs ==
    {DefaultConfig} \cup {[DefaultConfig EXCEPT !.depth_flag = TRUE, !.depth = d] : d \in DepthLimits}

InitDepth ==
    /\ fs \in FileSystems
    /\ cfg \in DepthConfigs
    /\ pc = "run_checked"
    /\ idx = 1
    /\ bytes = 0
    /\ entries = <<>>
    /\ entry = NoEntry
    /\ log = <<>>
    /\ printed = <<>>
    /\ name = <<>>
    /\ name_width = 0
    /\ truncated = <<>>
    /\ build \in Builds
    /\ PureIdle

\* the only path's Entry::new( path, cfg, cfg.depth + 1 ), with the checks
\* of the build
RunChecked ==
    /\ pc = "run_checked"
    /\ LET r     == EntryNew(cfg.paths[1], cfg, U8(cfg.depth + 1))
           under == {k \in 1..Len(r.log) : r.log[k].op = "underflow"}
       IN IF build = "debug" /\ depth_add_overflows(cfg)
          THEN /\ log' = <<Ev("overflow", cfg.paths[1])>>
               /\ entry' = entry
               /\ pc' = "panic"
          ELSE IF build = "debug" /\ under # {}
          THEN /\ log' = SubSeq(r.log, 1, CHOOSE k \in under : \A j \in under : k <= j)
               /\ entry' = entry
               /\ pc' = "panic"
          ELSE /\ log' = (IF depth_add_overflows(cfg)
                          THEN <<Ev("overflow", cfg.paths[1])>> ELSE <<>>) \o r.log
               /\ entry' = r.e
               /\ pc' = "built"
    /\ UNCHANGED <<fs, cfg, idx, bytes, entries, printed, name, name_width, truncated,
                   build, purevars>>

NextDepth == RunChecked

SpecDepth == InitDepth /\ [][NextDepth]_vars

(***************************************************************************)
(* What the properties speak of.                                           *)
(***************************************************************************)
Built == pc \in {"print", "done"}

RECURSIVE AllEntries(_)
\* every entry of the tree under e, e included
AllEntries(e) == {e} \cup UNION {AllEntries(e.entries.v[k]) : k \in 1..Len(e.entries.v)}

Tree == AllEntries(entry)

\* the entries built from a node of the file system
NodeEntries == {e \in Tree : e.path # NoNode}

\* the entries with a children sequence
Descended == {e \in Tree : e.entries.some}

IsAggregate(e) == e.path = NoNode /\ e.name = AggregatedName

Roots == {cfg.paths[k] : k \in 1..Len(cfg.paths)}

\* the size the file system records for the node itself: st_size, or the
\* allocated blocks under -u; nothing when its metadata cannot be read
OwnSize(n) ==
    IF ~fs[n].meta_ok THEN 0
    ELSE IF cfg.usage_flag THEN fs[n].st_blocks * BlockUnit ELSE fs[n].st_size

\* a directory proper (not a link to one) whose listing can be read
Listable(n) == fs[n].meta_ok /\ fs[n].kind = "dir" /\ fs[n].readable

RECURSIVE Under(_, _)
\* m is n or lies beneath n, through directories that can be listed
Under(m, n) ==
    \/ m = n
    \/ /\ Parent(m) # NoNode
       /\ Listable(Parent(m))
       /\ Under(Parent(m), n)

RECURSIVE SumOwn(_)
\* the sum of the own sizes of a set of nodes
SumOwn(S) ==
    IF S = {} THEN 0
    ELSE LET x == CHOOSE y \in S : TRUE IN OwnSize(x) + SumOwn(S \ {x})

\* own size plus the sizes of every node beneath, at any depth
FullSize(n) == SumOwn({m \in Node : Under(m, n)})

\* the children of n that pass the argument filters
KeptChildren(n) == {m \in Node : Parent(m) = n /\ ~is_filtered(m, cfg)}
FilteredChildren(n) == {m \in Node : Parent(m) = n /\ is_filtered(m, cfg)}

RECURSIVE DepthArg(_)
\* the depth argument of the Entry::new call for n
DepthArg(n) ==
    IF n \in Roots THEN U8(cfg.depth + 1) ELSE next_depth(cfg, DepthArg(Parent(n)))

\* the entry Entry::new returns for n, before its parent sorts or folds it
BuiltChild(n) == EntryNew(n, cfg, DepthArg(n)).e

\* a directory on which Entry::new ran and the depth guard stopped the descent
DepthStopped(n) ==
    /\ cfg.depth_flag
    /\ is_dir(n)
    /\ next_depth(cfg, DepthArg(n)) = 0

\* the node's read fails: its metadata, or (a directory proper) its listing
MetaFails(n) == ~fs[n].meta_ok
ListFails(n) == fs[n].meta_ok /\ fs[n].kind = "dir" /\ ~fs[n].readable

\* how many events of the kind name the node
Count(op, n) == Cardinality({k \in 1..Len(log) : log[k] = Ev(op, n)})

RECURSIVE SumBuilt(_)
\* the sum of the bytes of the entries Entry::new returns for a set of nodes
SumBuilt(S) ==
    IF S = {} THEN 0
    ELSE LET x == CHOOSE y \in S : TRUE IN BuiltChild(x).bytes + SumBuilt(S \ {x})

EntryBytes(v) == SeqSum([k \in 1..Len(v) |-> v[k].bytes])

\* the post-filter children of the directory of e that fall under the threshold
Folded(e) == {c \in KeptChildren(e.path) : cfg.aggr > 0 /\ BuiltChild(c).bytes < cfg.aggr}

\* the places of e's children sequence that hold an aggregate entry
AggPlaces(e) == {k \in 1..Len(e.entries.v) : IsAggregate(e.entries.v[k])}
VisiblePlaces(e) == {k \in 1..Len(e.entries.v) : ~IsAggregate(e.entries.v[k])}

(***************************************************************************)
(* C1: every entry with a children sequence that was built from a          *)
(* directory has bytes = the directory's own size + the sum of the bytes   *)
(* of the entries of its children sequence (the aggregate entry included)  *)
(* = own size + the sum of the bytes of its post-filter children as        *)
(* Entry::new returned them, before aggregation.                           *)
(***************************************************************************)
C1_DirBytes ==
    Built =>
        \A e \in Descended : e.path # NoNode =>
            /\ e.bytes = OwnSize(e.path) + EntryBytes(e.entries.v)
            /\ e.bytes = OwnSize(e.path) + SumBuilt(KeptChildren(e.path))

\* a descended directory of non-zero own size with a visible child, an
\* aggregate entry and a child that the filters removed
C1_Witness ==
    /\ pc = "done"
    /\ \E e \in Descended :
          /\ e.path # NoNode
          /\ OwnSize(e.path) > 0
          /\ AggPlaces(e) # {}
          /\ VisiblePlaces(e) # {}
          /\ FilteredChildren(e.path) # {}
          /\ e.bytes > OwnSize(e.path)

(***************************************************************************)
(* C2 as stated: in every sibling sequence the entries are in strictly     *)
(* descending order of bytes, except that an aggregate entry is the final  *)
(* element whatever its bytes.                                             *)
(***************************************************************************)
C2_StrictlyDescending ==
    Built =>
        \A e \in Descended :
            LET v == e.entries.v
            IN \A i, j \in 1..Len(v) : i < j =>
                   IF IsAggregate(v[j]) THEN j = Len(v)
                   ELSE ~IsAggregate(v[i]) /\ v[i].bytes > v[j].bytes

(***************************************************************************)
(* C2 amended: in every sibling sequence the entries are in descending     *)
(* order of bytes, entries of equal bytes being adjacent in either order,  *)
(* except that an aggregate entry is the final element whatever its bytes. *)
(***************************************************************************)
C2_Descending ==
    Built =>
        \A e \in Descended :
            LET v == e.entries.v
            IN \A i, j \in 1..Len(v) : i < j =>
                   IF IsAggregate(v[j]) THEN j = Len(v)
                   ELSE ~IsAggregate(v[i]) /\ v[i].bytes >= v[j].bytes

\* a sibling sequence of two entries of different bytes followed by an
\* aggregate entry that is larger than the entry before it
C2_Witness ==
    /\ pc = "done"
    /\ \E e \in Descended :
          LET v == e.entries.v
          IN /\ Len(v) = 3
             /\ v[1].bytes > v[2].bytes
             /\ IsAggregate(v[3])
             /\ v[3].bytes > v[2].bytes

(***************************************************************************)
(* C3: in every non-empty sibling sequence exactly one entry has the       *)
(* last-sibling flag, and it is the final element; the root has it false.  *)
(***************************************************************************)
C3_LastSibling ==
    Built =>
        /\ entry.last = FALSE
        /\ \A e \in Descended :
              LET v == e.entries.v
              IN \A k \in 1..Len(v) : v[k].last <=> (k = Len(v))

\* a collection of three roots, with a directory whose children sequence
\* has no aggregate entry and one whose children sequence ends in one
C3_Witness ==
    /\ pc = "done"
    /\ entry.path = NoNode
    /\ Len(entry.entries.v) = 3
    /\ \E e \in Descended : e.path # NoNode /\ AggPlaces(e) # {}
    /\ \E e \in Descended : e.path # NoNode /\ e.entries.v # <<>> /\ AggPlaces(e) = {}

(***************************************************************************)
(* C4: in every descended directory, with threshold T = cfg.aggr > 0, a    *)
(* post-filter child is missing from the visible children iff its bytes    *)
(* is below T; the aggregate entry's bytes is the sum of the bytes of the  *)
(* folded children; without a folded child there is no aggregate entry.    *)
(* With T = 0 every post-filter child is visible and there is no aggregate *)
(* entry.                                                                  *)
(***************************************************************************)
C4_Aggregation ==
    Built =>
        \A e \in Descended : e.path # NoNode =>
            LET v == e.entries.v
                K == KeptChildren(e.path)
            IN /\ {v[k].path : k \in VisiblePlaces(e)} = K \ Folded(e)
               /\ Cardinality(VisiblePlaces(e)) = Cardinality(K \ Folded(e))
               /\ Cardinality(AggPlaces(e)) <= 1
               /\ \A k \in AggPlaces(e) : v[k].bytes = SumBuilt(Folded(e))
               /\ Folded(e) = {} => AggPlaces(e) = {}
               /\ cfg.aggr = 0 => Folded(e) = {} /\ AggPlaces(e) = {}

\* a directory with two folded children, a visible child whose bytes is
\* exactly the threshold, and the aggregate entry
C4_Witness ==
    /\ pc = "done"
    /\ \E e \in Descended :
          /\ e.path # NoNode
          /\ Cardinality(Folded(e)) = 2
          /\ AggPlaces(e) # {}
          /\ \E k \in VisiblePlaces(e) : e.entries.v[k].bytes = cfg.aggr

(***************************************************************************)
(* C5: with depth limiting active, a directory whose descent the depth     *)
(* guard stops gets no children sequence and its bytes is its own size     *)
(* plus the sizes of every node beneath it at any depth (a symbolic link   *)
(* counted as the link itself); its parent adds that value into its total. *)
(***************************************************************************)
C5_DepthStoppedFullSize ==
    Built /\ cfg.depth_flag =>
        /\ \A e \in NodeEntries : DepthStopped(e.path) =>
              /\ ~e.entries.some
              /\ e.bytes = FullSize(e.path)
        /\ \A p \in Descended : p.path # NoNode =>
              p.bytes = OwnSize(p.path)
                        + SumBuilt({c \in KeptChildren(p.path) : ~DepthStopped(c)})
                        + SumOwn({m \in Node : \E c \in KeptChildren(p.path) :
                                                  DepthStopped(c) /\ Under(m, c)})

\* a depth-stopped directory in the tree, child of a descended directory,
\* with a sub-directory of its own that holds a file
C5_Witness ==
    /\ pc = "done"
    /\ cfg.depth_flag
    /\ \E p \in Descended : \E k \in 1..Len(p.entries.v) :
          LET e == p.entries.v[k]
          IN /\ p.path # NoNode
             /\ e.path # NoNode
             /\ DepthStopped(e.path)
             /\ \E d, g \in Node :
                   /\ Parent(d) = e.path /\ Parent(g) = d
                   /\ Under(g, e.path)
                   /\ OwnSize(d) > 0 /\ OwnSize(g) > 0
             /\ e.bytes > OwnSize(e.path) + 1

(***************************************************************************)
(* C6 as stated: for every directory entry of the built tree, under every  *)
(* depth-limit setting, the sizes of its filtered children and of anything *)
(* beneath them are not part of the entry's bytes: the bytes is at most    *)
(* the sizes of the directory and of the nodes beneath it that do not lie  *)
(* under a filtered child.                                                 *)
(***************************************************************************)
C6_FilteredNotCounted ==
    Built =>
        \A e \in NodeEntries : is_dir(e.path) =>
            e.bytes <= SumOwn({m \in Node :
                                  /\ Under(m, e.path)
                                  /\ ~\E f \in FilteredChildren(e.path) : Under(m, f)})

(***************************************************************************)
(* C7 as stated: every node whose read fails during the build (a           *)
(* directory whose listing cannot be read, a node whose metadata cannot be *)
(* read) is named by exactly one error report, whatever the depth limit    *)
(* and wherever it sits; no node is reported twice.                        *)
(***************************************************************************)
C7_ReportedOnce ==
    Built =>
        \A n \in Node :
            /\ Count("err", n) <= 1
            /\ Count("new", n) + Count("get_bytes", n) > 0
               /\ (MetaFails(n) \/ ListFails(n))
               => Count("err", n) = 1

(***************************************************************************)
(* C8 as stated: a node whose read fails (a directory whose listing cannot *)
(* be read, a node whose metadata cannot be read) yields an entry with no  *)
(* children and bytes 0.                                                   *)
(***************************************************************************)
C8_FailedIsZero ==
    Built =>
        \A e \in NodeEntries : MetaFails(e.path) \/ ListFails(e.path) =>
            ~e.entries.some /\ e.bytes = 0

(***************************************************************************)
(* C8 amended: a node whose metadata cannot be read yields an entry with   *)
(* no children and bytes 0; a directory whose listing cannot be read       *)
(* yields an entry with no children whose bytes is the directory's own     *)
(* size, and only that is added to its parent's total; the build goes on:  *)
(* the parent's total still counts every sibling that passes the filters,  *)
(* and every such sibling that is not folded is in the children sequence.  *)
(***************************************************************************)
C8_FailedNode ==
    Built =>
        /\ \A e \in NodeEntries :
              /\ MetaFails(e.path) => ~e.entries.some /\ e.bytes = 0
              /\ ListFails(e.path) => ~e.entries.some /\ e.bytes = OwnSize(e.path)
        /\ \A p \in Descended : p.path # NoNode =>
              LET K    == KeptChildren(p.path)
                  Bad  == {c \in K : MetaFails(c) \/ ListFails(c)}
              IN /\ p.bytes = OwnSize(p.path) + SumOwn({c \in Bad : ListFails(c)})
                              + SumBuilt(K \ Bad)
                 /\ \A c \in K \ Folded(p) :
                       \E k \in 1..Len(p.entries.v) : p.entries.v[k].path = c

\* a descended directory with an unreadable sub-directory of non-zero size
\* in its children sequence, beside other children
C8_Witness ==
    /\ pc = "done"
    /\ \E p \in Descended : \E k \in 1..Len(p.entries.v) :
          LET e == p.entries.v[k]
          IN /\ p.path # NoNode
             /\ e.path # NoNode
             /\ ListFails(e.path)
             /\ e.bytes > 0
             /\ Len(p.entries.v) >= 3

(***************************************************************************)
(* C9: a symbolic link is never followed: the entry of a link (also of a   *)
(* link to a directory) has no children and its bytes is the size of the   *)
(* link itself, no listing is ever asked of a link, neither by the builder *)
(* nor by the accounting pass; each node is visited at most once by each   *)
(* pass, only nodes beneath the roots through directories proper are       *)
(* visited, and the build of every root path yields its entry.             *)
(***************************************************************************)
C9_LinksNotFollowed ==
    /\ Built =>
          \A e \in NodeEntries : fs[e.path].meta_ok /\ fs[e.path].kind = "link" =>
              /\ ~e.entries.some
              /\ e.bytes = (IF cfg.usage_flag THEN fs[e.path].st_blocks * BlockUnit
                            ELSE fs[e.path].st_size)
    /\ \A k \in 1..Len(log) :
          /\ log[k].op = "read_dir" => fs[log[k].path].kind # "link"
          /\ \E r \in Roots : Under(log[k].path, r)
    /\ \A n \in Node : Count("new", n) <= 1 /\ Count("get_bytes", n) <= 1
    /\ pc = "run" => \A r \in Roots : EntryNew(r, cfg, U8(cfg.depth + 1)).e.path = r

\* the tree is built and holds the entry of a link to the directory that
\* lists it (a cycle), of non-zero size
C9_Witness ==
    /\ pc = "done"
    /\ \E e \in NodeEntries :
          /\ fs[e.path].kind = "link"
          /\ fs[e.path].target = Parent(e.path)
          /\ is_dir(e.path)
          /\ e.bytes > 0

RECURSIVE IsPrefix(_, _)
IsPrefix(p, s) ==
    \/ p = <<>>
    \/ s # <<>> /\ Head(p) = Head(s) /\ IsPrefix(Tail(p), Tail(s))

(***************************************************************************)
(* C10 as stated: the name printed for a name of grapheme clusters of      *)
(* width 0, 1 or 2 and an allotted width n is a prefix of the cluster      *)
(* sequence, of whole clusters, that stops before the first cluster that   *)
(* would exceed n, and its display width is at most n.                     *)
(***************************************************************************)
C10_TruncatedIsPrefix ==
    pc = "done" =>
        /\ IsPrefix(truncated, name)
        /\ NameWidth(truncated) <= name_width
        /\ Len(truncated) < Len(name) =>
              NameWidth(truncated) + ClusterWidth(name[Len(truncated) + 1]) > name_width

(***************************************************************************)
(* C11.  Color classification gives the class of the priority list: a link *)
(* with an existing target is 'ln' and a dangling link 'or'; a directory   *)
(* that is no link is 'ow' when other-writable and 'di' otherwise; a       *)
(* regular file that is no link is 'ex' with any execute bit, otherwise    *)
(* the '*.<ext>' key equal to its extension, otherwise 'fi'; any other     *)
(* node is 'bd' (its extension's key first, as for the path of a file that *)
(* does not exist); and the outcome is the code of that class, or no color *)
(* when the table has no entry for it.  Where the table lacks the class,   *)
(* the next class of the same kind's list is accepted as well as no color  *)
(* ('di' for an other-writable directory, the extension's key or 'fi' for  *)
(* an executable file).                                                    *)
(***************************************************************************)
\* the '*.<ext>' key of the node's extension
ExtKey(nd) ==
    LET ext_str == extension(nd.name)
    IN IF ext_str.some THEN <<(<<"*", ".">> \o ext_str.v)>> ELSE <<>>

\* the classes of the node's kind, first to last
ClassList(nd) ==
    IF nd.meta_ok /\ nd.kind = "link"
    THEN IF nd.target # "none" THEN <<KeyLn>> ELSE <<KeyOr>>
    ELSE IF nd.meta_ok /\ nd.kind = "dir"
    THEN (IF nd.other_w THEN <<KeyOw>> ELSE <<>>) \o <<KeyDi>>
    ELSE IF nd.meta_ok /\ nd.kind = "file"
    THEN (IF nd.exec THEN <<KeyEx>> ELSE <<>>) \o ExtKey(nd) \o <<KeyFi>>
    ELSE ExtKey(nd) \o <<KeyBd>>

\* the code of the first class of the list that the table has
FirstPresent(list, dict) ==
    LET here == {k \in 1..Len(list) : list[k] \in dict}
    IN IF here = {} THEN NoColor
       ELSE Found(list[CHOOSE k \in here : \A j \in here : k <= j])

\* the class the claim selects: the extension's key only when the table
\* has it
ClaimedClass(nd, dict) ==
    LET list == ClassList(nd)
        rest == SelectSeq(list, LAMBDA k : k \in dict \/ k \notin {key \in ColorKeys : key[1] = "*"})
    IN Head(rest)

Classified == pc = "classified"

C11_ColorClass ==
    Classified =>
        \/ color = FirstPresent(ClassList(cnode), color_dict)
        \/ /\ ClaimedClass(cnode, color_dict) \notin color_dict
           /\ color = NoColor

(***************************************************************************)
(* C12.  The bar body of an entry with the chain of bytes b1 .. bk below   *)
(* the root's total, reference maximum M and column width w has exactly    *)
(* W = w - 7 cells, and the cells drawn at the entry's own, densest level  *)
(* number c_k, where c_1 = floor(b1 * W / M) and c_(i+1) =                 *)
(* floor(b_(i+1) * c_i / b_i), 0 when the divisor is 0: the child with     *)
(* bytes M has all W cells shaded.  Stated of the chains whose levels all  *)
(* have a character of their own (one level in ASCII).                     *)
(***************************************************************************)
Barred == pc = "barred"

\* c_i of the chain vals = << root total, b1, .., bk >>
RECURSIVE ClaimedCells(_, _, _, _)
ClaimedCells(vals, m, W, i) ==
    IF i = 1 THEN IF m = 0 THEN 0 ELSE (vals[2] * W) \div m
    ELSE IF vals[i] = 0 THEN 0
         ELSE (vals[i + 1] * ClaimedCells(vals, m, W, i - 1)) \div vals[i]

CountAt(cells, lvl) == Cardinality({x \in 1..Len(cells) : cells[x] = lvl})

OwnLevels(b) == Len(b.bytes) - 1 < block_chars(b.ascii_flag)

C12_BarCells ==
    Barred /\ OwnLevels(bar_in) =>
        /\ Len(bar_out.cells) = bar_in.width - 7
        /\ CountAt(bar_out.cells, block_chars(bar_in.ascii_flag) - 1)
             = ClaimedCells(bar_in.bytes, bar_in.max_bytes, bar_in.width - 7,
                            Len(bar_in.bytes) - 1)

(***************************************************************************)
(* C14.  For every terminal width w the width calculation stays in         *)
(* unsigned range: w - 15, the name column max(25, floor((w - 15) * 25 /   *)
(* 100)), the bar column and the bar body width (bar column - 7) are       *)
(* computed without underflow, and name column + bar column + 15 = w.      *)
(***************************************************************************)
Laid == pc = "laid"

C14_LayoutInRange ==
    Laid =>
        /\ ~layout.panic
        /\ ~layout.wrapped
        /\ layout.tree_name_width + layout.bar_width + size_width = term_width

(***************************************************************************)
(* C13.  With depth limiting active, for every limit N the u8 holds, a     *)
(* directory at level k (the root is level 0) has a children sequence only *)
(* if k < N, so no entry lies deeper than level N and with N = 0 the root  *)
(* has no children; the remaining-depth counter, started at N + 1 and      *)
(* decremented at every level, never overflows or underflows.  With depth  *)
(* limiting inactive every readable directory that is no link is descended *)
(* into at every level.                                                    *)
(***************************************************************************)
RECURSIVE Level(_)
Level(n) == IF Parent(n) = NoNode THEN 0 ELSE Level(Parent(n)) + 1

DepthBuilt == pc = "built"

CounterInRange == \A k \in 1..Len(log) : log[k].op \notin {"overflow", "underflow"}

DescentWithinLimit ==
    DepthBuilt /\ cfg.depth_flag =>
        \A e \in NodeEntries :
            /\ Level(e.path) <= cfg.depth
            /\ e.entries.some => Level(e.path) < cfg.depth

DescentUnlimited ==
    DepthBuilt /\ ~cfg.depth_flag =>
        \A e \in NodeEntries : Listable(e.path) => e.entries.some

C13_DepthBudget ==
    /\ pc # "panic"
    /\ CounterInRange
    /\ DescentWithinLimit
    /\ DescentUnlimited

====
